---- MODULE Spec2Model ----
(***************************************************************************)
(* A model of the issue-tracker backend: the user, project, issue and      *)
(* comment stores, the authentication / authorization middleware, the      *)
(* project, issue and comment request handlers, and the key generators.    *)
(* Every request handler is one action; a handler's answer is recorded in  *)
(* resp.  Where the interleaving of workers matters a handler is cut at its *)
(* awaits, and pending holds what each worker has read so far.  Strings    *)
(* whose characters matter (names, keys, emails) are sequences of          *)
(* one-character strings.                                                  *)
(***************************************************************************)
EXTENDS Integers, Sequences, FiniteSets, TLC

VARIABLES users, projects, issues, comments, issueSeq, commentSeq, now, resp, pending

vars == <<users, projects, issues, comments, issueSeq, commentSeq, now, resp, pending>>

\* what a handler that answers without writing leaves alone: the collections and
\* the requests of the other workers that are in flight
db == <<users, projects, issues, comments, issueSeq, commentSeq, now, pending>>

(***************************************************************************)
(* Bounds of the model.                                                    *)
(***************************************************************************)
MaxProjects == 1

MaxIssues == 2

MaxComments == 2

MaxClock == 2

MaxHours == 1

MaxKeyIssues == 11

MaxArrayLen == 2

MaxAccessIssues == 1

MaxRegistered == 2

MaxWorkers == 2

MaxKeyProjects == 3

MaxStored == 2

MaxLogged == 2

(***************************************************************************)
(* Characters and strings.                                                 *)
(***************************************************************************)
LowerLetters == <<"a","b","c","d","e","f","g","h","i","j","k","l","m",
                  "n","o","p","q","r","s","t","u","v","w","x","y","z">>

UpperLetters == <<"A","B","C","D","E","F","G","H","I","J","K","L","M",
                  "N","O","P","Q","R","S","T","U","V","W","X","Y","Z">>

DigitChars == <<"0","1","2","3","4","5","6","7","8","9">>

SeqRange(s) == {s[i] : i \in 1..Len(s)}

IsUpperLetter(c) == c \in SeqRange(UpperLetters)

IsDigit(c) == c \in SeqRange(DigitChars)

\* String.prototype.toUpperCase, one character
UpperChar(c) ==
    IF \E i \in 1..Len(LowerLetters) : LowerLetters[i] = c
    THEN UpperLetters[CHOOSE i \in 1..Len(LowerLetters) : LowerLetters[i] = c]
    ELSE c

toUpperCase(s) == [i \in 1..Len(s) |-> UpperChar(s[i])]

\* String.prototype.toLowerCase, one character
LowerChar(c) ==
    IF IsUpperLetter(c)
    THEN LowerLetters[CHOOSE i \in 1..Len(UpperLetters) : UpperLetters[i] = c]
    ELSE c

\* String.prototype.toLowerCase
toLowerCase(s) == [i \in 1..Len(s) |-> LowerChar(s[i])]

\* String.prototype.substring(0, n)
substring0(s, n) == IF Len(s) <= n THEN s ELSE SubSeq(s, 1, n)

\* the decimal numeral of a natural number, as `${n}` writes it
RECURSIVE NumToStr(_)
NumToStr(n) ==
    IF n < 10 THEN <<DigitChars[n + 1]>>
    ELSE NumToStr(n \div 10) \o <<DigitChars[(n % 10) + 1]>>

DigitValue(c) == (CHOOSE i \in 1..Len(DigitChars) : DigitChars[i] = c) - 1

NaN == -1

\* parseInt: the value of the longest prefix of decimal digits, NaN if none
RECURSIVE ParseDigits(_, _, _)
ParseDigits(s, i, acc) ==
    IF i > Len(s) \/ ~IsDigit(s[i]) THEN acc
    ELSE ParseDigits(s, i + 1, acc * 10 + DigitValue(s[i]))

parseInt(s) == IF Len(s) = 0 \/ ~IsDigit(s[1]) THEN NaN ELSE ParseDigits(s, 1, 0)

\* String.prototype.split('-'): the pieces between the dashes
RECURSIVE SplitDash(_, _, _)
SplitDash(s, i, cur) ==
    IF i > Len(s) THEN <<cur>>
    ELSE IF s[i] = "-" THEN <<cur>> \o SplitDash(s, i + 1, <<>>)
    ELSE SplitDash(s, i + 1, Append(cur, s[i]))

split(s) == SplitDash(s, 1, <<>>)

\* code-unit order of characters: digits, then upper case, then lower case;
\* blank and dash come before the digits
CharRank(c) ==
    IF c = " " THEN 0
    ELSE IF c = "-" THEN 1
    ELSE IF IsDigit(c) THEN 2 + DigitValue(c)
    ELSE IF IsUpperLetter(c)
         THEN 12 + (CHOOSE i \in 1..Len(UpperLetters) : UpperLetters[i] = c)
    ELSE 40 + (CHOOSE i \in 1..Len(LowerLetters) : LowerLetters[i] = c)

\* binary string comparison, the order a sort on a string field uses
RECURSIVE StrLessFrom(_, _, _)
StrLessFrom(a, b, i) ==
    IF i > Len(a) THEN i <= Len(b)
    ELSE IF i > Len(b) THEN FALSE
    ELSE IF a[i] = b[i] THEN StrLessFrom(a, b, i + 1)
    ELSE CharRank(a[i]) < CharRank(b[i])

StrLess(a, b) == StrLessFrom(a, b, 1)

StartsWith(s, p) == Len(s) >= Len(p) /\ SubSeq(s, 1, Len(p)) = p

includes(arr, x) == \E i \in 1..Len(arr) : arr[i] = x

\* Array.prototype.filter(e => e !== x)
RECURSIVE filterOut(_, _)
filterOut(arr, x) ==
    IF Len(arr) = 0 THEN <<>>
    ELSE IF Head(arr) = x THEN filterOut(Tail(arr), x)
    ELSE <<Head(arr)>> \o filterOut(Tail(arr), x)

(***************************************************************************)
(* Users, credentials and the middleware.                                  *)
(***************************************************************************)
UserIds == {"ua", "um", "ud"}

NoToken == "none"

NoUser == "nouser"

Creds == UserIds \cup {NoToken}

ADMIN == "admin"

PROJECT_MANAGER == "project_manager"

DEVELOPER == "developer"

VIEWER == "viewer"

SeedUsers ==
    [u \in UserIds |->
        [role |-> IF u = "ua" THEN ADMIN ELSE IF u = "um" THEN PROJECT_MANAGER ELSE DEVELOPER,
         isActive |-> TRUE,
         email |-> IF u = "ua" THEN <<"u","a">> ELSE IF u = "um" THEN <<"u","m">> ELSE <<"u","d">>,
         lastLogin |-> 0]]

Workers == 1..MaxWorkers

\* a worker between two requests
Idle == [op |-> "idle", email |-> <<>>, id |-> 0, data |-> <<>>, item |-> <<>>]

\* authenticate: req.user, or NoUser when the handler answers 401
authenticate(cred) ==
    IF cred = NoToken THEN NoUser
    ELSE IF cred \notin DOMAIN users \/ ~users[cred].isActive THEN NoUser
    ELSE cred

\* the legacy server's authenticate: no check of the active flag
serverAuthenticate(cred) ==
    IF cred = NoToken THEN NoUser
    ELSE IF cred \notin DOMAIN users THEN NoUser
    ELSE cred

Next200 == 200

\* what a middleware does: it calls next(), or it answers with a status
CallNext == [next |-> TRUE, status |-> Next200, error |-> ""]

Refuse(status, error) == [next |-> FALSE, status |-> status, error |-> error]

\* authorize without the test of the role
authorizeNoRoleCheck(roles, user) ==
    IF user = NoUser THEN Refuse(401, "Authentication required") ELSE CallNext

\* authorize(...roles)
authorize(roles, user) ==
    IF user = NoUser THEN Refuse(401, "Authentication required")
    ELSE IF users[user].role \notin roles THEN Refuse(403, "Insufficient permissions")
    ELSE CallNext

isAdmin(user) == users[user].role = ADMIN

\* Project.isMember
isMemberMembersOnly(project, userId) == includes(project.members, userId)

isMember(project, userId) ==
    project.owner = userId \/ includes(project.members, userId)

ProjectIds == 1..(MaxProjects + 1)

KeyProjectIds == 1..(MaxKeyProjects + 1)

ProjectExists(id) == id \in DOMAIN projects

\* authorizeProjectMember(getProjectId)
authorizeProjectMember(user, projectId) ==
    IF user = NoUser THEN 401
    ELSE IF isAdmin(user) THEN Next200
    ELSE IF ~ProjectExists(projectId) THEN 404
    ELSE IF ~isMember(projects[projectId], user) THEN 403
    ELSE Next200

(***************************************************************************)
(* Responses.                                                              *)
(***************************************************************************)
Response(op, kind, cred, target, status, data) ==
    [op |-> op, kind |-> kind, actor |-> cred, target |-> target,
     status |-> status, data |-> data]

NoResponse == Response("none", "none", NoToken, 0, 0, {})

Init ==
    /\ users = SeedUsers
    /\ projects = <<>>
    /\ issues = <<>>
    /\ comments = <<>>
    /\ issueSeq = 0
    /\ commentSeq = 0
    /\ now = 0
    /\ resp = NoResponse
    /\ pending = [w \in Workers |-> Idle]

(***************************************************************************)
(* The authenticate middleware on the Authorization header                 *)
(* (middleware/auth.ts).  A header is absent or a scheme followed by a     *)
(* token; a token carries a user id and is signed with the secret or not.  *)
(***************************************************************************)
NoHeader == <<>>

Bearer == "Bearer "

Ghost == "ghost"

TokenValues == [signed : BOOLEAN, userId : UserIds \cup {Ghost}]

Headers == {NoHeader} \cup {<<scheme, t>> : scheme \in {Bearer, "bearer ", "Basic "}, t \in TokenValues}

hasHeader(authHeader) == authHeader # NoHeader

\* authHeader && authHeader.startsWith('Bearer ')
startsWithBearer(authHeader) == authHeader # NoHeader /\ authHeader[1] = Bearer

\* authHeader.substring(7)
substring7(authHeader) == authHeader[2]

NotVerified == "JsonWebTokenError"

\* jwt.verify(token, JWT_SECRET): the payload's userId, or it throws
verifyToken(token) == IF token.signed THEN token.userId ELSE NotVerified

\* what the middleware did: the status it answered with (0 for none), whether
\* it called next(), and req.user
Outcome(sent, next, user) == [sent |-> sent, next |-> next, user |-> user]

authenticateMiddleware(authHeader) ==
    IF ~startsWithBearer(authHeader) THEN Outcome(401, FALSE, NoUser)
    ELSE LET decoded == verifyToken(substring7(authHeader)) IN
         IF decoded = NotVerified THEN Outcome(401, FALSE, NoUser)
         ELSE IF decoded \notin DOMAIN users \/ ~users[decoded].isActive
              THEN Outcome(401, FALSE, NoUser)
              ELSE Outcome(0, TRUE, decoded)

\* a request passing through authenticate
Authenticate(authHeader) ==
    /\ resp' = Response("authenticate", "user", NoToken, authHeader, 0,
                        {authenticateMiddleware(authHeader)})
    /\ UNCHANGED db

\* an account deactivated in the store (isActive: { type: Boolean, default: true })
Deactivate(id) ==
    /\ id \in DOMAIN users
    /\ users[id].isActive
    /\ users' = [users EXCEPT ![id].isActive = FALSE]
    /\ resp' = Response("deactivate", "user", NoToken, id, 0, {})
    /\ UNCHANGED <<pending, projects, issues, comments, issueSeq, commentSeq, now>>

(***************************************************************************)
(* Registration and Google login (routes/auth.ts, UserRepository.ts).      *)
(***************************************************************************)
NotAnEmail == <<"b">>

RegEmails ==
    {<<"a","@","x">>, <<"A","@","x">>, <<"b","@","x">>, <<"B","@","x">>,
     <<"c","@","x">>, NotAnEmail}

\* registerSchema: Joi.string().email() on the email, which is left as typed
registerSchema(email) == "@" \in SeqRange(email)

\* findByEmail that queries the index with the email as typed
findByEmailAsTyped(email) == {u \in DOMAIN users : users[u].email = email}

\* UserRepository.findByEmail: the records the emailIndex holds under the
\* lower-cased email (the index is not unique)
findByEmail(email) == {u \in DOMAIN users : users[u].email = toLowerCase(email)}

Registered == DOMAIN users \ UserIds

NewUserIds == <<"r1", "r2", "r3", "r4">>

NewUserId == NewUserIds[Cardinality(Registered) + 1]

\* userRepo.create of the register and google handlers; role and isActive by default
NewUser(email) ==
    [role |-> VIEWER, isActive |-> TRUE, email |-> toLowerCase(email), lastLogin |-> 0]

AlreadyExists == "User with this email already exists"

\* the attributes of a stored user
UserFields ==
    {"id", "email", "password", "firstName", "lastName", "role", "isActive", "lastLogin"}

toJSONSpread(fields) == fields

\* UserClass.toJSON, on the names of the attributes
toJSON(fields) == (fields \ {"password", "id"}) \cup {"_id"}

\* .select('-password')
selectNoPassword(fields) == fields \ {"password"}

\* the answer of an auth handler; user: the attributes of the user object in it
AuthResponse(op, target, status, email, error) ==
    Response(op, "user", NoToken, target, status,
             {[email |-> email, error |-> error,
               user |-> IF status \in {200, 201} THEN toJSON(UserFields) ELSE {}]})

\* GET /auth/me
Me(cred) ==
    LET user == authenticate(cred)
        R(status, data) == Response("me", "user", cred, 0, status, data)
    IN  /\ resp' = IF user = NoUser THEN R(401, {})
                   ELSE R(200, {[user |-> IF user \in DOMAIN users THEN toJSON(UserFields)
                                          ELSE toJSON(selectNoPassword(UserFields))]})
        /\ UNCHANGED db

\* GET /auth/verify
Verify(cred) ==
    LET user == authenticate(cred)
        R(status, data) == Response("verify", "user", cred, 0, status, data)
    IN  /\ resp' = IF user = NoUser THEN R(401, {})
                   ELSE R(200, {[user |-> toJSON(selectNoPassword(UserFields))]})
        /\ UNCHANGED db

\* populateUser: the user object put in place of an id, nothing for an unknown id
populateUser(id) == IF id \in DOMAIN users THEN toJSON(UserFields) ELSE {}

\* a call of populateUser(id); data: what it returned
ApplyPopulateUser(id) ==
    /\ resp' = Response("populateUser", "user", NoToken, 0, 0, {[user |-> populateUser(id)]})
    /\ UNCHANGED db

\* POST /auth/register, handled without another request in between
Register(email) ==
    IF ~registerSchema(email)
    THEN resp' = AuthResponse("register", 0, 400, email, "validation") /\ UNCHANGED db
    ELSE IF findByEmail(email) # {}
    THEN resp' = AuthResponse("register", 0, 400, email, AlreadyExists) /\ UNCHANGED db
    ELSE /\ Cardinality(Registered) < MaxRegistered
         /\ users' = users @@ (NewUserId :> NewUser(email))
         /\ resp' = AuthResponse("register", NewUserId, 201, email, "")
         /\ UNCHANGED <<pending, projects, issues, comments, issueSeq, commentSeq, now>>

BadToken == <<>>

\* the idTokens of the model: a token is the email Google vouches for
GoogleTokens == {e \in RegEmails : registerSchema(e)} \cup {BadToken}

\* POST /auth/google, handled without another request in between
GoogleLogin(idToken) ==
    IF idToken = BadToken
    THEN resp' = AuthResponse("google", 0, 401, idToken, "Invalid Google token")
         /\ UNCHANGED db
    ELSE IF findByEmail(idToken) # {}
    THEN \E u \in findByEmail(idToken) :
            /\ now < MaxClock
            /\ now' = now + 1
            /\ users' = [users EXCEPT ![u].lastLogin = now']
            /\ resp' = AuthResponse("google", u, 200, idToken, "")
            /\ UNCHANGED <<pending, projects, issues, comments, issueSeq, commentSeq>>
    ELSE /\ Cardinality(Registered) < MaxRegistered
         /\ users' = users @@ (NewUserId :> NewUser(idToken))
         /\ resp' = AuthResponse("google", NewUserId, 200, idToken, "")
         /\ UNCHANGED <<pending, projects, issues, comments, issueSeq, commentSeq, now>>

\* the emails the concurrent workers are sent
WorkerEmails == {<<"a","@","x">>, <<"A","@","x">>, <<"b","@","x">>}

InFlight(op, email) == [Idle EXCEPT !.op = op, !.email = email]

\* POST /auth/register up to the answer of findByEmail
RegisterCheck(w, email) ==
    /\ pending[w] = Idle
    /\ IF ~registerSchema(email)
       THEN resp' = AuthResponse("register", 0, 400, email, "validation") /\ UNCHANGED db
       ELSE IF findByEmail(email) # {}
       THEN resp' = AuthResponse("register", 0, 400, email, AlreadyExists) /\ UNCHANGED db
       ELSE /\ pending' = [pending EXCEPT ![w] = InFlight("register", email)]
            /\ UNCHANGED <<users, projects, issues, comments, issueSeq, commentSeq, now, resp>>

\* POST /auth/register from userRepo.create on
RegisterCreate(w) ==
    /\ pending[w].op = "register"
    /\ Cardinality(Registered) < MaxRegistered
    /\ users' = users @@ (NewUserId :> NewUser(pending[w].email))
    /\ resp' = AuthResponse("register", NewUserId, 201, pending[w].email, "")
    /\ pending' = [pending EXCEPT ![w] = Idle]
    /\ UNCHANGED <<projects, issues, comments, issueSeq, commentSeq, now>>

\* POST /auth/google up to the answer of findByEmail; a user that is found is
\* stamped and answered here
GoogleFind(w, idToken) ==
    /\ pending[w] = Idle
    /\ IF idToken = BadToken
       THEN resp' = AuthResponse("google", 0, 401, idToken, "Invalid Google token")
            /\ UNCHANGED db
       ELSE IF findByEmail(idToken) # {}
       THEN \E u \in findByEmail(idToken) :
               /\ now < MaxClock
               /\ now' = now + 1
               /\ users' = [users EXCEPT ![u].lastLogin = now']
               /\ resp' = AuthResponse("google", u, 200, idToken, "")
               /\ UNCHANGED <<pending, projects, issues, comments, issueSeq, commentSeq>>
       ELSE /\ pending' = [pending EXCEPT ![w] = InFlight("google", idToken)]
            /\ UNCHANGED <<users, projects, issues, comments, issueSeq, commentSeq, now, resp>>

\* POST /auth/google from userRepo.create on
GoogleCreate(w) ==
    /\ pending[w].op = "google"
    /\ Cardinality(Registered) < MaxRegistered
    /\ users' = users @@ (NewUserId :> NewUser(pending[w].email))
    /\ resp' = AuthResponse("google", NewUserId, 200, pending[w].email, "")
    /\ pending' = [pending EXCEPT ![w] = Idle]
    /\ UNCHANGED <<projects, issues, comments, issueSeq, commentSeq, now>>

(***************************************************************************)
(* Project handlers (routes/projects.ts).                                  *)
(***************************************************************************)
NoKey == <<>>

NameTest == <<"T","e","s","t"," ","P">>

NameAb == <<"a","b">>

ProjectNames == {NameTest}

NameDigit == <<"1","a">>

KeyNames == {NameTest, NameDigit}

KeyTES == <<"T","E","S">>

ValidKeys == {NoKey, KeyTES, <<"a","b">>}

SuppliedKeys == {NoKey, <<"T","E","S">>, <<"t","1">>}

NameMaxLen == 100

KeyMinLen == 2

KeyMaxLen == 10

KeyPrefixLen == 3

\* createProjectSchema: whether the body is valid, and the validated value
createProjectSchema(name, key) ==
    LET k == toUpperCase(key)
        bad == [ok |-> FALSE, name |-> name, key |-> key]
    IN  IF Len(name) < 1 \/ Len(name) > NameMaxLen THEN bad
        ELSE IF key = NoKey THEN [ok |-> TRUE, name |-> name, key |-> NoKey]
        ELSE IF Len(k) < KeyMinLen \/ Len(k) > KeyMaxLen THEN bad
        ELSE IF \E i \in 1..Len(k) : ~IsUpperLetter(k[i]) THEN bad
        ELSE [ok |-> TRUE, name |-> name, key |-> k]

\* ProjectRepository.findByKey: the ids of the records that hold the key
findActiveByKey(key) ==
    {id \in DOMAIN projects : projects[id].key = key /\ projects[id].isActive}

findByKey(key) == {id \in DOMAIN projects : projects[id].key = key}

\* the counter loop of the create handler: the first free candidate
RECURSIVE NextFreeKey(_, _)
NextFreeKey(base, counter) ==
    IF findByKey(base \o NumToStr(counter)) = {} THEN base \o NumToStr(counter)
    ELSE NextFreeKey(base, counter + 1)

routeGenerateKeyFromTwo(name) ==
    LET base == toUpperCase(substring0(name, KeyPrefixLen))
    IN  IF findByKey(base) = {} THEN base ELSE NextFreeKey(base, 2)

routeGenerateKey(name) ==
    LET base == toUpperCase(substring0(name, KeyPrefixLen))
    IN  IF findByKey(base) = {} THEN base ELSE NextFreeKey(base, 1)

\* name.replace(/[^a-zA-Z0-9]/g, '')
stripNonAlphanumeric(name) ==
    SelectSeq(name, LAMBDA c : c \in SeqRange(LowerLetters) \/ IsUpperLetter(c) \/ IsDigit(c))

PROJ == <<"P","R","O","J">>

\* Project.generateUniqueKey of the key-value variant
projectGenerateUniqueKey(name) ==
    LET stripped == substring0(toUpperCase(stripNonAlphanumeric(name)), KeyMaxLen)
        baseKey == IF stripped = <<>> THEN PROJ ELSE stripped
    IN  IF findByKey(baseKey) = {} THEN baseKey ELSE NextFreeKey(baseKey, 1)

\* projectSchema.statics.generateUniqueKey of the document variant
schemaGenerateUniqueKey(name) ==
    LET baseKey == substring0(toUpperCase(stripNonAlphanumeric(name)), KeyMaxLen)
    IN  IF findByKey(baseKey) = {} THEN baseKey ELSE NextFreeKey(baseKey, 1)

\* a key asked of each of the three generators
GenerateKeys(name) ==
    /\ resp' = Response("generateKey", "project", NoToken, name, 0,
                        {[route |-> routeGenerateKey(name),
                          keyValue |-> projectGenerateUniqueKey(name),
                          document |-> schemaGenerateUniqueKey(name)]})
    /\ UNCHANGED db

NewProjectId == Cardinality(DOMAIN projects) + 1

\* ProjectClass.addMember
addMember(project, userId) ==
    IF includes(project.members, userId) THEN project
    ELSE [project EXCEPT !.members = Append(@, userId)]

\* ProjectClass.removeMember
removeMember(project, userId) ==
    [project EXCEPT !.members = filterOut(@, userId)]

CreateRoles == {ADMIN, PROJECT_MANAGER}

DeleteRoles == {ADMIN}

\* POST /projects, with at most cap projects stored
ProjectCreateUpTo(cred, name, key, cap) ==
    LET user == authenticate(cred)
        authz == authorize(CreateRoles, user)
        value == createProjectSchema(name, key)
        projectKey == IF value.key = NoKey THEN routeGenerateKey(value.name) ELSE value.key
        R(status) == Response("projectCreate", "project", cred, 0, status, {})
    IN  IF ~authz.next
        THEN resp' = R(authz.status) /\ UNCHANGED db
        ELSE IF ~value.ok
        THEN resp' = R(400) /\ UNCHANGED db
        ELSE IF findByKey(projectKey) # {}
        THEN resp' = R(400) /\ UNCHANGED db
        ELSE /\ Cardinality(DOMAIN projects) < cap
             /\ projects' = projects @@ (NewProjectId :>
                    [name |-> value.name, key |-> projectKey, owner |-> user,
                     members |-> <<user>>, isActive |-> TRUE])
             /\ resp' = Response("projectCreate", "project", cred, NewProjectId, 201,
                                 {NewProjectId})
             /\ UNCHANGED <<pending, users, issues, comments, issueSeq, commentSeq, now>>

ProjectCreate(cred, name, key) == ProjectCreateUpTo(cred, name, key, MaxProjects)

\* GET /projects/:id
ProjectGet(cred, id) ==
    LET user == authenticate(cred)
        authz == authorizeProjectMember(user, id)
        R(status, data) == Response("projectGet", "project", cred, id, status, data)
    IN  /\ resp' = IF authz # Next200 THEN R(authz, {})
                   ELSE IF ~ProjectExists(id) THEN R(404, {})
                   ELSE R(200, {id})
        /\ UNCHANGED db

findByUserAnyState(userId) ==
    {id \in DOMAIN projects : includes(projects[id].members, userId)}

\* ProjectRepository.findByUser: the active projects that list the user as a member
findByUser(userId) ==
    {id \in DOMAIN projects :
        includes(projects[id].members, userId) /\ projects[id].isActive}

\* GET /projects
ProjectList(cred) ==
    LET user == authenticate(cred)
        R(status, data) == Response("projectList", "project", cred, 0, status, data)
    IN  /\ resp' = IF user = NoUser THEN R(401, {}) ELSE R(200, findByUser(user))
        /\ UNCHANGED db

\* DELETE /projects/:id
ProjectDelete(cred, id) ==
    LET user == authenticate(cred)
        authz == authorize(DeleteRoles, user)
        R(status) == Response("projectDelete", "project", cred, id, status, {})
    IN  IF ~authz.next
        THEN resp' = R(authz.status) /\ UNCHANGED db
        ELSE IF ~ProjectExists(id)
        THEN resp' = R(404) /\ UNCHANGED db
        ELSE /\ projects' = [projects EXCEPT ![id].isActive = FALSE]
             /\ resp' = R(200)
             /\ UNCHANGED <<pending, users, issues, comments, issueSeq, commentSeq, now>>

\* POST /projects/:id/members
ProjectAddMember(cred, id, userId) ==
    LET user == authenticate(cred)
        authz == authorizeProjectMember(user, id)
        R(status) == Response("projectAddMember", "project", cred, id, status, {})
    IN  IF authz # Next200
        THEN resp' = R(authz) /\ UNCHANGED db
        ELSE IF ~ProjectExists(id)
        THEN resp' = R(404) /\ UNCHANGED db
        ELSE IF isMember(projects[id], userId)
        THEN resp' = R(400) /\ UNCHANGED db
        ELSE /\ projects' = [projects EXCEPT ![id] = addMember(@, userId)]
             /\ resp' = R(200)
             /\ UNCHANGED <<pending, users, issues, comments, issueSeq, commentSeq, now>>

\* the handler without its owner guard
removeMemberGuardOff(project, userId) == FALSE

\* "Prevent removing the owner"
removeMemberGuard(project, userId) == project.owner = userId

\* DELETE /projects/:id/members/:userId
ProjectRemoveMember(cred, id, userId) ==
    LET user == authenticate(cred)
        authz == authorizeProjectMember(user, id)
        R(status) == Response("projectRemoveMember", "project", cred, id, status, {userId})
    IN  IF authz # Next200
        THEN resp' = R(authz) /\ UNCHANGED db
        ELSE IF ~ProjectExists(id)
        THEN resp' = R(404) /\ UNCHANGED db
        ELSE IF removeMemberGuard(projects[id], userId)
        THEN resp' = R(400) /\ UNCHANGED db
        ELSE IF ~isMember(projects[id], userId)
        THEN resp' = R(400) /\ UNCHANGED db
        ELSE /\ projects' = [projects EXCEPT ![id] = removeMember(@, userId)]
             /\ resp' = R(200)
             /\ UNCHANGED <<pending, users, issues, comments, issueSeq, commentSeq, now>>

(***************************************************************************)
(* Issues (models/Issue.ts, routes/issues.ts, server.js).                  *)
(***************************************************************************)
IssueIds == 1..(MaxIssues + 1)

AccessIssueIds == 1..(MaxAccessIssues + 1)

IssueExists(id) == id \in DOMAIN issues

Dash == <<"-">>

NumeralOf(n) == IF n = NaN THEN <<"N","a","N">> ELSE NumToStr(n)

IssueKeys == {issues[i].key : i \in DOMAIN issues}

\* the stored keys that match new RegExp(`^${projectKey}-`)
KeysMatching(projectKey) == {k \in IssueKeys : StartsWith(k, projectKey \o Dash)}

\* findOne(...).sort({ key: -1 }): the greatest matching key in string order
LastKey(projectKey) ==
    CHOOSE k \in KeysMatching(projectKey) :
        \A other \in KeysMatching(projectKey) : ~StrLess(k, other)

\* Issue.generateUniqueKey
generateUniqueKey(projectKey) ==
    LET lastNumber == parseInt(split(LastKey(projectKey))[2])
        nextNumber == IF KeysMatching(projectKey) = {} THEN 1
                      ELSE IF lastNumber = NaN THEN NaN ELSE lastNumber + 1
    IN  projectKey \o Dash \o NumeralOf(nextNumber)

\* server.js: Issue.countDocuments({ projectId }) + 1
countKey(projectId) ==
    projects[projectId].key \o Dash
        \o NumToStr(Cardinality({i \in DOMAIN issues : issues[i].projectId = projectId}) + 1)

preSaveNothing(issue) == issue

\* issueSchema.pre('save'): the reporter is put back among the watchers
preSave(issue) ==
    IF ~includes(issue.watchers, issue.reporter)
    THEN [issue EXCEPT !.watchers = Append(@, issue.reporter)]
    ELSE issue

\* estimatedHours: { default: null }
NoEstimate == -1

NewIssue(projectId, key, user) ==
    [projectId |-> projectId, key |-> key, reporter |-> user, watchers |-> <<user>>,
     comments |-> <<>>, loggedHours |-> 0, status |-> "todo", type |-> "task",
     priority |-> "medium", estimatedHours |-> NoEstimate]

\* the unique index on key: a save with a stored key fails
KeyTaken(key) == key \in IssueKeys

RemoveKey(f, id) == [i \in (DOMAIN f) \ {id} |-> f[i]]

\* server.js POST /api/issues
ServerIssueCreate(cred, projectId, cap) ==
    LET user == serverAuthenticate(cred)
        R(status, t, data) == Response("serverIssueCreate", "project", cred, t, status, data)
    IN  IF user = NoUser
        THEN resp' = R(401, projectId, {}) /\ UNCHANGED db
        ELSE IF ~ProjectExists(projectId)
        THEN resp' = R(404, projectId, {}) /\ UNCHANGED db
        ELSE IF KeyTaken(countKey(projectId))
        THEN resp' = R(500, projectId, {}) /\ UNCHANGED db
        ELSE /\ issueSeq < cap
             /\ issueSeq' = issueSeq + 1
             /\ issues' = issues @@ (issueSeq' :> NewIssue(projectId, countKey(projectId), user))
             /\ resp' = R(201, projectId, {issueSeq'})
             /\ UNCHANGED <<pending, users, projects, comments, commentSeq, now>>

ObjectAssignNothing(item, data) == item

\* Object.assign(item, data)
ObjectAssign(item, data) ==
    [f \in DOMAIN item \cup DOMAIN data |-> IF f \in DOMAIN data THEN data[f] ELSE item[f]]

NoField == 0

\* createIssueSchema: unknown keys of the body are refused; the schema has no projectId
createIssueSchema(body) ==
    IF body.projectId # NoField THEN [ok |-> FALSE, projectId |-> NoField]
    ELSE [ok |-> TRUE, projectId |-> NoField]

\* POST /issues
IssueCreate(cred, body, cap) ==
    LET user == authenticate(cred)
        value == createIssueSchema(body)
        projectId == value.projectId
        key == generateUniqueKey(projects[projectId].key)
        R(status, data) == Response("issueCreate", "project", cred, body.projectId, status, data)
    IN  IF user = NoUser
        THEN resp' = R(401, {}) /\ UNCHANGED db
        ELSE IF ~value.ok
        THEN resp' = R(400, {}) /\ UNCHANGED db
        ELSE IF ~ProjectExists(projectId)
        THEN resp' = R(404, {}) /\ UNCHANGED db
        ELSE IF ~isMember(projects[projectId], user)
        THEN resp' = R(403, {}) /\ UNCHANGED db
        ELSE IF KeyTaken(key)
        THEN resp' = R(500, {}) /\ UNCHANGED db
        ELSE /\ issueSeq < cap
             /\ issueSeq' = issueSeq + 1
             /\ issues' = issues @@ (issueSeq' :> preSave(NewIssue(projectId, key, user)))
             /\ resp' = R(201, {issueSeq'})
             /\ UNCHANGED <<pending, users, projects, comments, commentSeq, now>>

\* POST /issues as the steps of a worker: up to the answer of
\* Issue.generateUniqueKey, then from issue.save() on
IssueCreateWorker(w, cred, body, cap) ==
    LET user == authenticate(cred)
        value == createIssueSchema(body)
        projectId == value.projectId
        R(status, data) == Response("issueCreate", "project", cred, body.projectId, status, data)
    IN  IF pending[w] = Idle
        THEN IF user = NoUser
             THEN resp' = R(401, {}) /\ UNCHANGED db
             ELSE IF ~value.ok
             THEN resp' = R(400, {}) /\ UNCHANGED db
             ELSE IF ~ProjectExists(projectId)
             THEN resp' = R(404, {}) /\ UNCHANGED db
             ELSE IF ~isMember(projects[projectId], user)
             THEN resp' = R(403, {}) /\ UNCHANGED db
             ELSE /\ pending' = [pending EXCEPT ![w] =
                        [op |-> "issueCreate", email |-> <<>>, id |-> projectId,
                         data |-> generateUniqueKey(projects[projectId].key),
                         item |-> [actor |-> user]]]
                  /\ UNCHANGED <<users, projects, issues, comments, issueSeq, commentSeq, now, resp>>
        ELSE /\ pending[w].op = "issueCreate"
             /\ pending' = [pending EXCEPT ![w] = Idle]
             /\ IF KeyTaken(pending[w].data)
                THEN /\ resp' = Response("issueCreate", "project", pending[w].item.actor,
                                         pending[w].id, 500, {})
                     /\ UNCHANGED <<users, projects, issues, comments, issueSeq, commentSeq, now>>
                ELSE /\ issueSeq < cap
                     /\ issueSeq' = issueSeq + 1
                     /\ issues' = issues @@ (issueSeq' :>
                            preSave(NewIssue(pending[w].id, pending[w].data, pending[w].item.actor)))
                     /\ resp' = Response("issueCreate", "project", pending[w].item.actor,
                                         pending[w].id, 201, {issueSeq'})
                     /\ UNCHANGED <<users, projects, comments, commentSeq, now>>

\* the access check of the issue handlers: !project || !project.isMember(user)
issueAccess(user, projectId) ==
    ProjectExists(projectId) /\ isMember(projects[projectId], user)

DefaultLimit == 20

\* GET /issues (first page, default limit), optionally filtered by project
IssueList(cred, projectId) ==
    LET user == authenticate(cred)
        found == {i \in DOMAIN issues : projectId = NoField \/ issues[i].projectId = projectId}
        R(status, data) == Response("issueList", "project", cred, projectId, status, data)
    IN  /\ Cardinality(found) <= DefaultLimit
        /\ resp' = IF user = NoUser THEN R(401, {})
                   ELSE IF projectId # NoField /\ ~issueAccess(user, projectId) THEN R(403, {})
                   ELSE R(200, found)
        /\ UNCHANGED db

\* the part shared by the handlers that name an issue: the refusal, or Next200
issueGate(user, id) ==
    IF user = NoUser THEN 401
    ELSE IF ~IssueExists(id) THEN 404
    ELSE IF ~issueAccess(user, issues[id].projectId) THEN 403
    ELSE Next200

\* GET /issues/:id
IssueGet(cred, id) ==
    LET gate == issueGate(authenticate(cred), id)
        R(status, data) == Response("issueGet", "issue", cred, id, status, data)
    IN  /\ resp' = IF gate # Next200 THEN R(gate, {}) ELSE R(200, {id})
        /\ UNCHANGED db

UpdateStatuses == {"done"}

\* PUT /issues/:id with a validated body (findByIdAndUpdate: no save hook runs)
IssueUpdateFields(cred, id, value) ==
    LET gate == issueGate(authenticate(cred), id)
        R(st, data) == Response("issueUpdate", "issue", cred, id, st, data)
    IN  IF gate # Next200
        THEN resp' = R(gate, {}) /\ UNCHANGED db
        ELSE /\ issues' = [issues EXCEPT ![id] = ObjectAssign(@, value)]
             /\ resp' = R(200, {id})
             /\ UNCHANGED <<pending, users, projects, comments, issueSeq, commentSeq, now>>

IssueUpdate(cred, id, status) == IssueUpdateFields(cred, id, [status |-> status])

\* the ids of a set in ascending order
RECURSIVE SetToSeq(_)
SetToSeq(S) ==
    IF S = {} THEN <<>>
    ELSE LET m == CHOOSE x \in S : \A y \in S : x <= y
         IN  <<m>> \o SetToSeq(S \ {m})

\* $match: { projectId }
Matched(projectId) == SetToSeq({i \in DOMAIN issues : issues[i].projectId = projectId})

\* $push: '$field'
Pushed(projectId, field) ==
    [k \in 1..Len(Matched(projectId)) |-> issues[Matched(projectId)[k]][field]]

\* $sum: '$field', which passes over what is not a number
RECURSIVE SumField(_)
SumField(arr) ==
    IF arr = <<>> THEN 0
    ELSE SumField(Tail(arr)) + (IF Head(arr) = NoEstimate THEN 0 ELSE Head(arr))

countOccurrencesOnce(arr) == [v \in SeqRange(arr) |-> 1]

\* countOccurrences: arr.reduce((acc, item) => { acc[item] = (acc[item] || 0) + 1 }, {})
RECURSIVE countOccurrences(_)
countOccurrences(arr) ==
    IF arr = <<>> THEN [v \in {} |-> 0]
    ELSE LET acc == countOccurrences(SubSeq(arr, 1, Len(arr) - 1))
             item == arr[Len(arr)]
         IN  [v \in DOMAIN acc \cup {item} |->
                (IF v \in DOMAIN acc THEN acc[v] ELSE 0) + (IF v = item THEN 1 ELSE 0)]

\* Issue.getStatistics
getStatistics(projectId) ==
    IF Matched(projectId) = <<>>
    THEN [total |-> 0, byStatus |-> [v \in {} |-> 0], byPriority |-> [v \in {} |-> 0],
          byType |-> [v \in {} |-> 0], totalEstimatedHours |-> 0, totalLoggedHours |-> 0]
    ELSE [total |-> Len(Matched(projectId)),
          byStatus |-> countOccurrences(Pushed(projectId, "status")),
          byPriority |-> countOccurrences(Pushed(projectId, "priority")),
          byType |-> countOccurrences(Pushed(projectId, "type")),
          totalEstimatedHours |-> SumField(Pushed(projectId, "estimatedHours")),
          totalLoggedHours |-> SumField(Pushed(projectId, "loggedHours"))]

\* GET /projects/:id/stats
ProjectStats(cred, id) ==
    LET user == authenticate(cred)
        authz == authorizeProjectMember(user, id)
        R(status, data) == Response("projectStats", "project", cred, id, status, data)
    IN  /\ resp' = IF authz # Next200 THEN R(authz, {}) ELSE R(200, {getStatistics(id)})
        /\ UNCHANGED db

\* DELETE /issues/:id
IssueDelete(cred, id) ==
    LET gate == issueGate(authenticate(cred), id)
        R(st) == Response("issueDelete", "issue", cred, id, st, {})
    IN  IF gate # Next200
        THEN resp' = R(gate) /\ UNCHANGED db
        ELSE /\ issues' = RemoveKey(issues, id)
             /\ resp' = R(200)
             /\ UNCHANGED <<pending, users, projects, comments, issueSeq, commentSeq, now>>

\* issueSchema.methods.addComment
addComment(issue, authorId, content) ==
    preSave([issue EXCEPT !.comments = Append(@, [author |-> authorId, content |-> content])])

\* issueSchema.methods.addWatcher
addWatcher(issue, userId) ==
    preSave(IF includes(issue.watchers, userId) THEN issue
            ELSE [issue EXCEPT !.watchers = Append(@, userId)])

\* issueSchema.methods.removeWatcher
removeWatcher(issue, userId) ==
    preSave([issue EXCEPT !.watchers = filterOut(@, userId)])

\* issueSchema.methods.logTime
logTime(issue, hours) == preSave([issue EXCEPT !.loggedHours = @ + hours])

NoDescription == <<>>

Descriptions == {NoDescription, <<"d1">>}

LoggedContent(hours, description) ==
    <<"Logged ">> \o NumToStr(hours) \o <<" hours: ">> \o description

\* POST /issues/:id/comments
IssueAddComment(cred, id, content) ==
    LET user == authenticate(cred)
        gate == issueGate(user, id)
        R(st, data) == Response("issueAddComment", "issue", cred, id, st, data)
    IN  IF gate # Next200
        THEN resp' = R(gate, {}) /\ UNCHANGED db
        ELSE /\ Len(issues[id].comments) < MaxComments
             /\ issues' = [issues EXCEPT ![id] = addComment(@, user, content)]
             /\ resp' = R(200, {id})
             /\ UNCHANGED <<pending, users, projects, comments, issueSeq, commentSeq, now>>

\* POST /issues/:id/time
IssueLogTime(cred, id, hours, description) ==
    LET user == authenticate(cred)
        gate == issueGate(user, id)
        logged == logTime(issues[id], hours)
        R(st, data) == Response("issueLogTime", "issue", cred, id, st, data)
    IN  IF gate # Next200
        THEN resp' = R(gate, {}) /\ UNCHANGED db
        ELSE /\ issues[id].loggedHours + hours <= MaxHours
             /\ description # NoDescription => Len(issues[id].comments) < MaxComments
             /\ issues' = [issues EXCEPT ![id] =
                    IF description # NoDescription
                    THEN addComment(logged, user, LoggedContent(hours, description))
                    ELSE logged]
             /\ resp' = R(200, {id})
             /\ UNCHANGED <<pending, users, projects, comments, issueSeq, commentSeq, now>>

\* POST /issues/:id/watchers
IssueAddWatcher(cred, id) ==
    LET user == authenticate(cred)
        gate == issueGate(user, id)
        R(st) == Response("issueAddWatcher", "issue", cred, id, st, {})
    IN  IF gate # Next200
        THEN resp' = R(gate) /\ UNCHANGED db
        ELSE /\ issues' = [issues EXCEPT ![id] = addWatcher(@, user)]
             /\ resp' = R(200)
             /\ UNCHANGED <<pending, users, projects, comments, issueSeq, commentSeq, now>>

\* DELETE /issues/:id/watchers
IssueRemoveWatcher(cred, id) ==
    LET user == authenticate(cred)
        gate == issueGate(user, id)
        R(st) == Response("issueRemoveWatcher", "issue", cred, id, st, {})
    IN  IF gate # Next200
        THEN resp' = R(gate) /\ UNCHANGED db
        ELSE /\ issues' = [issues EXCEPT ![id] = removeWatcher(@, user)]
             /\ resp' = R(200)
             /\ UNCHANGED <<pending, users, projects, comments, issueSeq, commentSeq, now>>

\* POST /issues/:id/time with no description, up to the answer of the reads
LogTimeRead(w, cred, id, hours) ==
    LET user == authenticate(cred)
        gate == issueGate(user, id)
    IN  /\ pending[w] = Idle
        /\ IF gate # Next200
           THEN resp' = Response("issueLogTime", "issue", cred, id, gate, {}) /\ UNCHANGED db
           ELSE /\ issues[id].loggedHours + hours <= MaxLogged
                /\ pending' = [pending EXCEPT ![w] =
                        [Idle EXCEPT !.op = "logTime", !.id = id, !.data = hours,
                                     !.item = [actor |-> cred, issue |-> issues[id]]]]
                /\ UNCHANGED <<users, projects, issues, comments, issueSeq, commentSeq,
                               now, resp>>

\* POST /issues/:id/time from issue.logTime on: save() sets the paths that were
\* modified on the document read, and fails when the document is gone
LogTimeSave(w) ==
    LET id == pending[w].id
        logged == logTime(pending[w].item.issue, pending[w].data)
        R(st, data) == Response("issueLogTime", "issue", pending[w].item.actor, id, st, data)
    IN  /\ pending[w].op = "logTime"
        /\ pending' = [pending EXCEPT ![w] = Idle]
        /\ IF ~IssueExists(id)
           THEN /\ resp' = R(500, {})
                /\ UNCHANGED <<users, projects, issues, comments, issueSeq, commentSeq, now>>
           ELSE /\ issues' = [issues EXCEPT ![id].loggedHours = logged.loggedHours]
                /\ resp' = R(200, {id})
                /\ UNCHANGED <<users, projects, comments, issueSeq, commentSeq, now>>

(***************************************************************************)
(* Standalone comments (routes/comments.ts, models/Comment.ts).            *)
(***************************************************************************)
CommentIds == 1..(MaxComments + 1)

CommentExists(id) == id \in DOMAIN comments

\* CommentRepository.findByIssue
findByIssue(issueId) == {c \in DOMAIN comments : comments[c].issueId = issueId}

\* CommentRepository.findByAuthor
findByAuthor(authorId) == {c \in DOMAIN comments : comments[c].author = authorId}

\* CommentClass.updateContent
updateContent(comment, content, time) ==
    [comment EXCEPT !.content = content, !.updatedAt = time]

\* GET /comments/issues/:issueId/comments (first page)
CommentList(cred, issueId) ==
    LET gate == issueGate(authenticate(cred), issueId)
        R(st, data) == Response("commentList", "issue", cred, issueId, st, data)
    IN  /\ Cardinality(findByIssue(issueId)) <= DefaultLimit
        /\ resp' = IF gate # Next200 THEN R(gate, {}) ELSE R(200, findByIssue(issueId))
        /\ UNCHANGED db

\* GET /comments/:id
CommentGet(cred, id) ==
    LET user == authenticate(cred)
        R(st, data) == Response("commentGet", "comment", cred, id, st, data)
    IN  /\ resp' = IF user = NoUser THEN R(401, {})
                   ELSE IF ~CommentExists(id) THEN R(404, {})
                   ELSE IF ~IssueExists(comments[id].issueId) THEN R(404, {})
                   ELSE IF ~issueAccess(user, issues[comments[id].issueId].projectId)
                        THEN R(403, {})
                   ELSE R(200, {id})
        /\ UNCHANGED db

\* POST /comments/issues/:issueId/comments
CommentCreate(cred, issueId, content) ==
    LET user == authenticate(cred)
        gate == issueGate(user, issueId)
        R(st, data) == Response("commentCreate", "issue", cred, issueId, st, data)
    IN  IF gate # Next200
        THEN resp' = R(gate, {}) /\ UNCHANGED db
        ELSE /\ commentSeq < MaxComments
             /\ Len(issues[issueId].comments) < MaxComments
             /\ now < MaxClock
             /\ now' = now + 1
             /\ commentSeq' = commentSeq + 1
             /\ comments' = comments @@ (commentSeq' :>
                    [issueId |-> issueId, author |-> user, content |-> content,
                     createdAt |-> now', updatedAt |-> now'])
             /\ issues' = [issues EXCEPT ![issueId] = addComment(@, user, content)]
             /\ resp' = R(201, {commentSeq'})
             /\ UNCHANGED <<pending, users, projects, issueSeq>>

\* the edit check with the admin exemption of the delete handler
canEditOrAdmin(comment, user) == comment.author = user \/ isAdmin(user)

\* "Check if user is the author of the comment"
canEdit(comment, user) == comment.author = user

\* PUT /comments/:id
CommentUpdate(cred, id, content) ==
    LET user == authenticate(cred)
        R(st) == Response("commentUpdate", "comment", cred, id, st, {content})
    IN  IF user = NoUser
        THEN resp' = R(401) /\ UNCHANGED db
        ELSE IF ~CommentExists(id)
        THEN resp' = R(404) /\ UNCHANGED db
        ELSE IF ~canEdit(comments[id], user)
        THEN resp' = R(403) /\ UNCHANGED db
        ELSE /\ now < MaxClock
             /\ now' = now + 1
             /\ comments' = [comments EXCEPT ![id] = updateContent(@, content, now')]
             /\ resp' = R(200)
             /\ UNCHANGED <<pending, users, projects, issues, issueSeq, commentSeq>>

\* the delete check without the admin exemption
canDeleteAuthorOnly(comment, user) == comment.author = user

\* "Check if user is the author of the comment or has admin access"
canDelete(comment, user) == comment.author = user \/ isAdmin(user)

\* DELETE /comments/:id (data: the record that was removed)
CommentDelete(cred, id) ==
    LET user == authenticate(cred)
        R(st, data) == Response("commentDelete", "comment", cred, id, st, data)
    IN  IF user = NoUser
        THEN resp' = R(401, {}) /\ UNCHANGED db
        ELSE IF ~CommentExists(id)
        THEN resp' = R(404, {}) /\ UNCHANGED db
        ELSE IF ~canDelete(comments[id], user)
        THEN resp' = R(403, {}) /\ UNCHANGED db
        ELSE /\ comments' = RemoveKey(comments, id)
             /\ resp' = R(200, {comments[id]})
             /\ UNCHANGED <<pending, users, projects, issues, issueSeq, commentSeq, now>>

\* GET /comments/author/:authorId (first page)
CommentsByAuthor(cred, authorId) ==
    LET user == authenticate(cred)
        R(st, data) == Response("commentsByAuthor", "user", cred, authorId, st, data)
    IN  /\ Cardinality(findByAuthor(authorId)) <= DefaultLimit
        /\ resp' = IF user = NoUser THEN R(401, {}) ELSE R(200, findByAuthor(authorId))
        /\ UNCHANGED db

(***************************************************************************)
(* The repository layer and direct applications of pure functions.         *)
(***************************************************************************)
RECURSIVE SeqsUpTo(_, _)
SeqsUpTo(S, n) ==
    IF n = 0 THEN {<<>>}
    ELSE SeqsUpTo(S, n - 1) \cup {Append(q, x) : q \in SeqsUpTo(S, n - 1), x \in S}

MemberLists == SeqsUpTo(UserIds, MaxArrayLen)

\* BaseRepository.create on the project repository: the data is stored as given
RepoProjectCreate(owner, members) ==
    /\ Cardinality(DOMAIN projects) < MaxProjects
    /\ projects' = projects @@ (NewProjectId :>
            [name |-> NameAb, key |-> toUpperCase(NameAb), owner |-> owner,
             members |-> members, isActive |-> TRUE])
    /\ UNCHANGED <<pending, users, issues, comments, issueSeq, commentSeq, now, resp>>

\* a call of project.isMember(userId); data: what it returned
ApplyIsMember(id, userId) ==
    /\ ProjectExists(id)
    /\ resp' = Response("isMember", "project", userId, id, 0, {isMember(projects[id], userId)})
    /\ UNCHANGED db

\* a call of the middleware authorize(...roles) with req.user = user; data: what it did
ApplyAuthorize(roles, user) ==
    /\ resp' = Response("authorize", "none", user, 0, authorize(roles, user).status,
                        {[roles |-> roles, out |-> authorize(roles, user)]})
    /\ UNCHANGED db

\* the ids of the records in the store
StoreIds == 1..MaxStored

\* the stand-in of an explicit null
Null == "null"

\* the partial entities given to update
UpdateData ==
    {[name |-> <<>>], [owner |-> Null], [name |-> NameTest, isActive |-> FALSE],
     [updatedAt |-> 0]}

\* the partial entity the concurrent workers give
WorkerData == {[name |-> <<>>]}

\* BaseRepository.findById: the record, or nothing
findById(id) == IF id \in DOMAIN projects THEN {projects[id]} ELSE {}

\* item.save() of a schema with timestamps: the record put, stamped with the time
Stamped(item, time) == [item EXCEPT !.updatedAt = time]

\* PutItem: the record replaces what the id holds, or is added
PutItem(id, item) ==
    [i \in DOMAIN projects \cup {id} |-> IF i = id THEN item ELSE projects[i]]

RepoResponse(op, id, data) == Response(op, "project", NoToken, id, 0, data)

\* BaseRepository.create of a record with the given id
RepoCreate(id, owner) ==
    /\ id \notin DOMAIN projects
    /\ projects' = PutItem(id, [name |-> NameAb, key |-> toUpperCase(NameAb), owner |-> owner,
                                members |-> <<>>, isActive |-> TRUE, updatedAt |-> now])
    /\ resp' = RepoResponse("repoCreate", id, {projects'[id]})
    /\ UNCHANGED <<pending, users, issues, comments, issueSeq, commentSeq, now>>

\* BaseRepository.update; data: what was given, the record read and the entity returned
RepoUpdate(id, data) ==
    IF findById(id) = {}
    THEN resp' = RepoResponse("repoUpdate", id, {[given |-> data]}) /\ UNCHANGED db
    ELSE /\ now < MaxClock
         /\ now' = now + 1
         /\ LET item == ObjectAssign(projects[id], data)
            IN  /\ projects' = PutItem(id, Stamped(item, now'))
                /\ \E out \in {item, Stamped(item, now')} :
                      resp' = RepoResponse("repoUpdate", id,
                                  {[given |-> data, read |-> projects[id], out |-> out]})
         /\ UNCHANGED <<pending, users, issues, comments, issueSeq, commentSeq>>

\* BaseRepository.delete
RepoDelete(id) ==
    /\ projects' = RemoveKey(projects, id)
    /\ resp' = RepoResponse("repoDelete", id, {})
    /\ UNCHANGED <<pending, users, issues, comments, issueSeq, commentSeq, now>>

\* a call of BaseRepository.findById; data: what it returned
RepoFindById(id) ==
    /\ resp' = RepoResponse("repoFindById", id, findById(id))
    /\ UNCHANGED db

\* BaseRepository.update up to the answer of findById
UpdateRead(w, id, data) ==
    /\ pending[w] = Idle
    /\ IF findById(id) = {}
       THEN resp' = RepoResponse("repoUpdate", id, {[given |-> data]}) /\ UNCHANGED db
       ELSE /\ pending' = [pending EXCEPT ![w] =
                    [Idle EXCEPT !.op = "update", !.id = id, !.data = data,
                                 !.item = projects[id]]]
            /\ UNCHANGED <<users, projects, issues, comments, issueSeq, commentSeq, now, resp>>

\* BaseRepository.update from Object.assign on
UpdateWrite(w) ==
    /\ pending[w].op = "update"
    /\ now < MaxClock
    /\ now' = now + 1
    /\ LET item == ObjectAssign(pending[w].item, pending[w].data)
       IN  /\ projects' = PutItem(pending[w].id, Stamped(item, now'))
           /\ \E out \in {item, Stamped(item, now')} :
                 resp' = RepoResponse("repoUpdate", pending[w].id,
                             {[given |-> pending[w].data, read |-> pending[w].item,
                               out |-> out]})
    /\ pending' = [pending EXCEPT ![w] = Idle]
    /\ UNCHANGED <<users, issues, comments, issueSeq, commentSeq>>

(***************************************************************************)
(* Specifications.                                                         *)
(***************************************************************************)
\* the project handlers and the role middleware
NextProjects ==
    \/ \E c \in Creds, n \in ProjectNames, k \in SuppliedKeys : ProjectCreate(c, n, k)
    \/ \E c \in Creds, id \in ProjectIds : ProjectGet(c, id)
    \/ \E c \in Creds, id \in ProjectIds : ProjectDelete(c, id)
    \/ \E c \in Creds, id \in ProjectIds, u \in UserIds : ProjectAddMember(c, id, u)
    \/ \E c \in Creds, id \in ProjectIds, u \in UserIds : ProjectRemoveMember(c, id, u)
    \/ \E r \in {CreateRoles, DeleteRoles}, u \in UserIds \cup {NoUser} : ApplyAuthorize(r, u)

SpecProjects == Init /\ [][NextProjects]_vars

\* the repository layer under Project.isMember
NextRepo ==
    \/ \E o \in UserIds, m \in MemberLists : RepoProjectCreate(o, m)
    \/ \E id \in ProjectIds, u \in UserIds : ApplyIsMember(id, u)

SpecRepo == Init /\ [][NextRepo]_vars

\* issue creation and deletion in one project, by a member of it
KeyActor == "um"

NextKeys ==
    \/ ProjectCreate(KeyActor, NameTest, NoKey)
    \/ \E id \in ProjectIds : ServerIssueCreate(KeyActor, id, MaxKeyIssues)
    \/ \E id \in {NoField} \cup ProjectIds :
            IssueCreate(KeyActor, [projectId |-> id], MaxKeyIssues)
    \/ \E id \in IssueIds : IssueDelete(KeyActor, id)

SpecKeys == Init /\ [][NextKeys]_vars

\* the project of KeyActor, the member it takes in, and the comments on its issues
Member == "ud"

FirstContent == <<"c1">>

EditedContent == <<"c2">>

NextComments ==
    \/ ProjectCreate(KeyActor, NameTest, NoKey)
    \/ \E id \in ProjectIds : ProjectAddMember(KeyActor, id, Member)
    \/ \E id \in ProjectIds : ServerIssueCreate(KeyActor, id, MaxAccessIssues)
    \/ \E c \in UserIds, i \in AccessIssueIds : CommentCreate(c, i, FirstContent)
    \/ \E c \in UserIds, id \in CommentIds : CommentUpdate(c, id, EditedContent)
    \/ \E c \in UserIds, id \in CommentIds : CommentDelete(c, id)

SpecComments == Init /\ [][NextComments]_vars

\* the same, for every sender, with the member leaving the project again
NextMembership ==
    \/ ProjectCreate(KeyActor, NameTest, NoKey)
    \/ \E id \in ProjectIds : ProjectAddMember(KeyActor, id, Member)
    \/ \E id \in ProjectIds : ProjectRemoveMember(KeyActor, id, Member)
    \/ \E id \in ProjectIds : ServerIssueCreate(KeyActor, id, MaxAccessIssues)
    \/ \E c \in UserIds, i \in AccessIssueIds : CommentCreate(c, i, FirstContent)
    \/ \E c \in Creds, id \in CommentIds : CommentUpdate(c, id, EditedContent)
    \/ \E c \in Creds, id \in CommentIds : CommentDelete(c, id)

SpecMembership == Init /\ [][NextMembership]_vars

\* every reader and writer of issues and comments, for every sender
NextAccess ==
    \/ ProjectCreate(KeyActor, NameTest, NoKey)
    \/ \E c \in Creds, id \in ProjectIds : ProjectDelete(c, id)
    \/ \E id \in ProjectIds : ServerIssueCreate(KeyActor, id, MaxAccessIssues)
    \/ \E c \in Creds, id \in {NoField} \cup ProjectIds :
            IssueCreate(c, [projectId |-> id], MaxAccessIssues)
    \/ \E c \in Creds, id \in {NoField} \cup ProjectIds : IssueList(c, id)
    \/ \E c \in Creds, i \in AccessIssueIds : IssueGet(c, i)
    \/ \E c \in Creds, i \in AccessIssueIds, st \in UpdateStatuses : IssueUpdate(c, i, st)
    \/ \E c \in Creds, i \in AccessIssueIds : IssueDelete(c, i)
    \/ \E c \in Creds, i \in AccessIssueIds : IssueAddComment(c, i, FirstContent)
    \/ \E c \in Creds, i \in AccessIssueIds, d \in Descriptions :
            IssueLogTime(c, i, MaxHours, d)
    \/ \E c \in Creds, i \in AccessIssueIds : IssueAddWatcher(c, i)
    \/ \E c \in Creds, i \in AccessIssueIds : IssueRemoveWatcher(c, i)
    \/ \E c \in Creds, i \in AccessIssueIds : CommentList(c, i)
    \/ \E c \in Creds, id \in CommentIds : CommentGet(c, id)
    \/ \E c \in Creds, i \in AccessIssueIds : CommentCreate(c, i, FirstContent)
    \/ \E c \in Creds, a \in UserIds : CommentsByAuthor(c, a)

SpecAccess == Init /\ [][NextAccess]_vars

\* registration and Google login, one request at a time
NextAuth ==
    \/ \E e \in RegEmails : Register(e)
    \/ \E t \in GoogleTokens : GoogleLogin(t)

SpecAuth == Init /\ [][NextAuth]_vars

\* registration and Google login by concurrent workers
NextWorkers ==
    \/ \E w \in Workers, e \in WorkerEmails : RegisterCheck(w, e)
    \/ \E w \in Workers : RegisterCreate(w)
    \/ \E w \in Workers, t \in WorkerEmails \cup {BadToken} : GoogleFind(w, t)
    \/ \E w \in Workers : GoogleCreate(w)

SpecWorkers == Init /\ [][NextWorkers]_vars

\* project creation with supplied and generated keys, and soft deletion
KeyAdmin == "ua"

NextProjectKeys ==
    \/ \E n \in KeyNames, k \in ValidKeys :
            ProjectCreateUpTo(KeyActor, n, k, MaxKeyProjects)
    \/ \E id \in KeyProjectIds : ProjectDelete(KeyAdmin, id)

SpecProjectKeys == Init /\ [][NextProjectKeys]_vars

\* the repository calls, one at a time
StoreOwner == "um"

NextStore ==
    \/ \E id \in StoreIds : RepoCreate(id, StoreOwner)
    \/ \E id \in StoreIds, d \in UpdateData : RepoUpdate(id, d)
    \/ \E id \in StoreIds : RepoDelete(id)
    \/ \E id \in StoreIds : RepoFindById(id)

SpecStore == Init /\ [][NextStore]_vars

\* the repository calls of concurrent workers
NextStoreWorkers ==
    \/ \E id \in StoreIds : RepoCreate(id, StoreOwner)
    \/ \E w \in Workers, id \in StoreIds, d \in WorkerData : UpdateRead(w, id, d)
    \/ \E w \in Workers : UpdateWrite(w)
    \/ \E id \in StoreIds : RepoDelete(id)
    \/ \E id \in StoreIds : RepoFindById(id)

SpecStoreWorkers == Init /\ [][NextStoreWorkers]_vars

\* the handlers that write an issue, sent by the owner of a project and by a member
WatcherActors == {KeyActor, Member}

NextWatchers ==
    \/ ProjectCreate(KeyActor, NameTest, NoKey)
    \/ ProjectAddMember(KeyActor, 1, Member)
    \/ ServerIssueCreate(KeyActor, 1, MaxAccessIssues)
    \/ IssueCreate(KeyActor, [projectId |-> 1], MaxAccessIssues)
    \/ \E c \in WatcherActors, i \in AccessIssueIds : IssueAddWatcher(c, i)
    \/ \E c \in WatcherActors, i \in AccessIssueIds : IssueRemoveWatcher(c, i)
    \/ \E i \in AccessIssueIds : IssueAddComment(KeyActor, i, FirstContent)
    \/ \E i \in AccessIssueIds : IssueLogTime(KeyActor, i, MaxHours, NoDescription)
    \/ \E i \in AccessIssueIds : IssueUpdate(KeyActor, i, "done")

SpecWatchers == Init /\ [][NextWatchers]_vars

\* log-time requests of concurrent workers and updates, on the issues of one project
LoggedHours == 1..MaxLogged

NextLogWorkers ==
    \/ ProjectCreate(KeyActor, NameTest, NoKey)
    \/ \E id \in ProjectIds : ServerIssueCreate(KeyActor, id, MaxAccessIssues)
    \/ \E w \in Workers, i \in AccessIssueIds, h \in LoggedHours :
            LogTimeRead(w, KeyActor, i, h)
    \/ \E w \in Workers : LogTimeSave(w)
    \/ \E i \in AccessIssueIds, st \in UpdateStatuses : IssueUpdate(KeyActor, i, st)

SpecLogWorkers == Init /\ [][NextLogWorkers]_vars

\* a project with a member, listed and soft-deleted
NextSoftDelete ==
    \/ ProjectCreate(KeyActor, NameTest, NoKey)
    \/ \E id \in ProjectIds : ProjectAddMember(KeyActor, id, Member)
    \/ \E id \in ProjectIds : ProjectRemoveMember(KeyActor, id, Member)
    \/ \E c \in Creds, id \in ProjectIds : ProjectGet(c, id)
    \/ \E c \in Creds, id \in ProjectIds : ProjectDelete(c, id)
    \/ \E c \in Creds : ProjectList(c)

SpecSoftDelete == Init /\ [][NextSoftDelete]_vars

\* the handlers that answer with a user object
NextCredentials ==
    \/ \E e \in RegEmails : Register(e)
    \/ \E t \in GoogleTokens : GoogleLogin(t)
    \/ \E c \in Creds : Me(c)
    \/ \E c \in Creds : Verify(c)
    \/ \E id \in UserIds \cup {NewUserIds[1]} : ApplyPopulateUser(id)

SpecCredentials == Init /\ [][NextCredentials]_vars

\* the issues of a project, updated and counted
StatsUpdates == {[status |-> "done", priority |-> "high"], [type |-> "bug", estimatedHours |-> 2]}

NextStats ==
    \/ ProjectCreate(KeyActor, NameTest, NoKey)
    \/ \E id \in ProjectIds : ServerIssueCreate(KeyActor, id, MaxIssues)
    \/ \E i \in IssueIds, v \in StatsUpdates : IssueUpdateFields(KeyActor, i, v)
    \/ \E i \in IssueIds : IssueLogTime(KeyActor, i, MaxHours, NoDescription)
    \/ \E id \in ProjectIds : ProjectStats(KeyActor, id)

SpecStats == Init /\ [][NextStats]_vars

\* requests with every kind of Authorization header, accounts being deactivated
NextAuthenticate ==
    \/ \E h \in Headers : Authenticate(h)
    \/ \E id \in UserIds : Deactivate(id)

SpecAuthenticate == Init /\ [][NextAuthenticate]_vars

\* issue-create requests handled by two workers at once
NextKeyWorkers ==
    \/ ProjectCreate(KeyActor, NameTest, NoKey)
    \/ ProjectAddMember(KeyActor, 1, Member)
    \/ ProjectRemoveMember(KeyActor, 1, Member)
    \/ \E id \in ProjectIds : ServerIssueCreate(KeyActor, id, MaxIssues)
    \/ \E id \in IssueIds : IssueDelete(KeyActor, id)
    \/ \E w \in Workers, c \in {KeyActor, Member, NoToken}, id \in {NoField} \cup ProjectIds :
            IssueCreateWorker(w, c, [projectId |-> id], MaxIssues)

SpecKeyWorkers == Init /\ [][NextKeyWorkers]_vars

\* names given to the three key generators while projects are created
GeneratorNames == {NameTest, NameAb, <<"-">>, <<"a","b","c","d","e","f","g","h","i","j","k">>}

NextKeyGenerators ==
    \/ \E n \in KeyNames, k \in ValidKeys :
            ProjectCreateUpTo(KeyActor, n, k, MaxKeyProjects)
    \/ \E n \in GeneratorNames : GenerateKeys(n)

SpecKeyGenerators == Init /\ [][NextKeyGenerators]_vars

\* the writers of standalone comments and of the comments embedded in an issue
NextEmbedded ==
    \/ ProjectCreate(KeyActor, NameTest, NoKey)
    \/ \E id \in ProjectIds : ServerIssueCreate(KeyActor, id, MaxAccessIssues)
    \/ \E i \in AccessIssueIds : CommentCreate(KeyActor, i, FirstContent)
    \/ \E id \in CommentIds : CommentUpdate(KeyActor, id, EditedContent)
    \/ \E id \in CommentIds : CommentDelete(KeyActor, id)
    \/ \E i \in AccessIssueIds : IssueAddComment(KeyActor, i, FirstContent)
    \/ \E i \in AccessIssueIds, d \in Descriptions : IssueLogTime(KeyActor, i, MaxHours, d)

SpecEmbedded == Init /\ [][NextEmbedded]_vars

\* updates of concurrent workers that name different fields
FieldData == {[name |-> <<>>], [isActive |-> FALSE]}

NextStoreFields ==
    \/ \E id \in StoreIds : RepoCreate(id, StoreOwner)
    \/ \E w \in Workers, id \in StoreIds, d \in FieldData : UpdateRead(w, id, d)
    \/ \E w \in Workers : UpdateWrite(w)
    \/ \E id \in StoreIds : RepoFindById(id)

SpecStoreFields == Init /\ [][NextStoreFields]_vars

(***************************************************************************)
(* Claims.                                                                 *)
(***************************************************************************)
KeyOf(projectKey, n) == projectKey \o Dash \o NumToStr(n)

\* C1: no two stored issues have the same key, and the key that either scheme
\* (Issue.generateUniqueKey, the count of server.js) hands out for a project
\* differs from the key of every issue stored at that moment.
C1_HandedOutKeyIsFresh ==
    /\ \A i, j \in DOMAIN issues : issues[i].key = issues[j].key => i = j
    /\ \A p \in DOMAIN projects :
          /\ generateUniqueKey(projects[p].key) \notin IssueKeys
          /\ countKey(p) \notin IssueKeys

\* C2: when the issues of the project with key K are keyed exactly K-1 .. K-n
\* (n >= 0), Issue.generateUniqueKey(K) is K-(n+1).
C2_NextKeyFollowsTheLast ==
    \A p \in DOMAIN projects :
        LET K == projects[p].key
            n == Cardinality(KeysMatching(K))
        IN  KeysMatching(K) = {KeyOf(K, i) : i \in 1..n}
                => generateUniqueKey(K) = KeyOf(K, n + 1)

\* the project a response's request is about: the named project, the parent of
\* the named issue, the parent of the named comment's issue; 0 when one is absent
ParentProject(r) ==
    LET ofIssue(i) == IF IssueExists(i) /\ ProjectExists(issues[i].projectId)
                      THEN issues[i].projectId ELSE 0
    IN  IF r.kind = "project" THEN (IF ProjectExists(r.target) THEN r.target ELSE 0)
        ELSE IF r.kind = "issue" THEN ofIssue(r.target)
        ELSE IF r.kind = "comment"
             THEN (IF CommentExists(r.target) THEN ofIssue(comments[r.target].issueId) ELSE 0)
        ELSE 0

MayAccess(user, p) == isMember(projects[p], user) \/ isAdmin(user)

Succeeded(r) == r.status \in {200, 201}

AccessOps ==
    {"issueList", "issueGet", "issueCreate", "issueUpdate", "issueDelete",
     "issueAddComment", "issueLogTime", "issueAddWatcher", "issueRemoveWatcher",
     "commentList", "commentGet", "commentCreate"}

\* C3: an issue operation or a comment read or create is open to the members of
\* the parent project and to admins, and to nobody else: an admin who is not a
\* member is not refused, a non-admin non-member does not succeed, and a listing
\* that names no project, or that selects comments by author, gives a non-admin
\* only what belongs to projects the sender is a member of.
C3_AccessStep ==
    LET r == resp'
        p == ParentProject(r)
    IN  r.actor \in UserIds =>
          /\ (r.op \in AccessOps /\ p # 0 /\ MayAccess(r.actor, p)) => r.status # 403
          /\ (r.op \in AccessOps /\ p # 0 /\ ~MayAccess(r.actor, p)) => ~Succeeded(r)
          /\ (r.op = "issueList" /\ Succeeded(r)) =>
                \A i \in r.data : MayAccess(r.actor, issues[i].projectId)
          /\ (r.op = "commentsByAuthor" /\ Succeeded(r)) =>
                \A c \in r.data :
                    IssueExists(comments[c].issueId) =>
                        MayAccess(r.actor, issues[comments[c].issueId].projectId)

C3_MemberOrAdminOnly == [][C3_AccessStep]_vars

\* C4 as stated: an edit by a user who is neither the author nor an admin is
\* answered 403 and changes nothing; an edit by the author or by any admin
\* succeeds, replaces the content and sets updatedAt to the time of the edit.
C4_EditStepAsStated ==
    LET r == resp'
        id == r.target
    IN  (r.op = "commentUpdate" /\ r.actor \in UserIds /\ CommentExists(id)) =>
            IF comments[id].author = r.actor \/ isAdmin(r.actor)
            THEN /\ r.status = 200
                 /\ comments'[id].content \in r.data
                 /\ comments'[id].updatedAt = now'
            ELSE r.status = 403 /\ comments' = comments

C4_AuthorOrAdminEdits == [][C4_EditStepAsStated]_vars

\* C4, amended: an edit by anyone but the author, admins included, is answered
\* 403 and changes nothing; an edit by the author succeeds, replaces the content
\* and sets updatedAt to the time of the edit, and touches nothing else.
C4_EditStep ==
    LET r == resp'
        id == r.target
    IN  (r.op = "commentUpdate" /\ r.actor \in UserIds /\ CommentExists(id)) =>
            IF comments[id].author = r.actor
            THEN /\ r.status = 200
                 /\ now' = now + 1
                 /\ comments' = [comments EXCEPT ![id].content = EditedContent,
                                                 ![id].updatedAt = now']
                 /\ r.data = {EditedContent}
            ELSE r.status = 403 /\ comments' = comments

C4_OnlyTheAuthorEdits == [][C4_EditStep]_vars

\* an admin who is not the author is refused, after an edit by an author went through
C4_Witness ==
    /\ resp.op = "commentUpdate"
    /\ resp.status = 403
    /\ resp.actor \in UserIds
    /\ isAdmin(resp.actor)
    /\ CommentExists(resp.target)
    /\ comments[resp.target].author # resp.actor
    /\ \E c \in DOMAIN comments :
          comments[c].content = EditedContent /\ comments[c].updatedAt > comments[c].createdAt

\* C5: a delete removes the comment iff the sender is its author or an admin;
\* anyone else is answered 403 and findById still returns the comment.
C5_DeleteStep ==
    LET r == resp'
        id == r.target
    IN  (r.op = "commentDelete" /\ r.actor \in UserIds /\ CommentExists(id)) =>
            IF comments[id].author = r.actor \/ isAdmin(r.actor)
            THEN /\ r.status = 200
                 /\ id \notin DOMAIN comments'
                 /\ \A c \in DOMAIN comments \ {id} :
                        c \in DOMAIN comments' /\ comments'[c] = comments[c]
            ELSE /\ r.status = 403
                 /\ id \in DOMAIN comments'
                 /\ comments'[id] = comments[id]

C5_AuthorOrAdminDeletes == [][C5_DeleteStep]_vars

\* an admin has removed a comment of somebody else, while another comment stays
C5_Witness ==
    /\ resp.op = "commentDelete"
    /\ resp.status = 200
    /\ isAdmin(resp.actor)
    /\ \E c \in resp.data : c.author # resp.actor
    /\ resp.target \notin DOMAIN comments
    /\ DOMAIN comments # {}

\* C6: a comment edit or delete succeeds only for a sender who, at that moment,
\* is a member of the parent project of the comment's issue, or is an admin.
C6_WriteStep ==
    LET r == resp' IN
    (r.op \in {"commentUpdate", "commentDelete"} /\ r.status = 200) =>
        /\ ParentProject(r) # 0
        /\ MayAccess(r.actor, ParentProject(r))

C6_WritersHaveProjectAccess == [][C6_WriteStep]_vars

\* C7: a request is answered 403 only about a resource that exists (with its
\* parent project); an absent one is never answered 403.
C7_ForbiddenOnlyForExisting ==
    (resp.status = 403 /\ resp.kind \in {"project", "issue", "comment"})
        => ParentProject(resp) # 0

\* C8: authorize(...roles) calls next exactly when there is a user whose role
\* is in the allow-list; without a user it answers 401, with another role 403
\* 'Insufficient permissions', and a refusal never calls next.  So a step that
\* adds a project record is made by an admin or a project manager, and a step
\* that deactivates a project is made by an admin.
C8_AuthorizeStep ==
    /\ resp'.op = "authorize" =>
          \A d \in resp'.data :
              LET user == resp'.actor
                  allowed == user # NoUser /\ users[user].role \in d.roles
              IN  /\ d.out.next <=> allowed
                  /\ user = NoUser => d.out.status = 401 /\ ~d.out.next
                  /\ (user # NoUser /\ users[user].role \notin d.roles) =>
                        /\ d.out.status = 403
                        /\ d.out.error = "Insufficient permissions"
                        /\ ~d.out.next
    /\ DOMAIN projects' # DOMAIN projects =>
          /\ resp'.actor \in UserIds
          /\ users[resp'.actor].role \in {ADMIN, PROJECT_MANAGER}
    /\ (\E id \in DOMAIN projects : projects[id].isActive /\ ~projects'[id].isActive) =>
          /\ resp'.op = "projectDelete"
          /\ resp'.actor \in UserIds
          /\ users[resp'.actor].role = ADMIN

C8_AuthorizeGuardsProjects == [][C8_AuthorizeStep]_vars

\* a role outside the allow-list is refused while a project, created and then
\* deactivated, is stored
C8_Witness ==
    /\ resp.op = "authorize"
    /\ \E d \in resp.data : ~d.out.next /\ d.out.status = 403
    /\ \E id \in DOMAIN projects : ~projects[id].isActive

\* C9: project.isMember(u) is true iff u is the project's owner or an element
\* of its members list; for the owner it is true whatever the list holds.
C9_IsMemberIffOwnerOrListed ==
    resp.op = "isMember" =>
        LET P == projects[resp.target]
            u == resp.actor
        IN  /\ resp.data = {u = P.owner \/ u \in SeqRange(P.members)}
            /\ u = P.owner => resp.data = {TRUE}

\* isMember is asked about the owner of a project whose list lacks the owner
C9_Witness ==
    /\ resp.op = "isMember"
    /\ resp.actor = projects[resp.target].owner
    /\ resp.actor \notin SeqRange(projects[resp.target].members)
    /\ resp.data = {TRUE}

\* C10: a remove-member request that targets the owner of the project is
\* rejected whoever sends it, and leaves the project as it was.
C10_RemoveOwnerStep ==
    (/\ resp'.op = "projectRemoveMember"
     /\ ProjectExists(resp'.target)
     /\ projects[resp'.target].owner \in resp'.data) =>
        /\ resp'.status \in {400, 401, 403}
        /\ projects' = projects

C10_OwnerIsNeverRemoved == [][C10_RemoveOwnerStep]_vars

\* an admin who is not the owner asks to remove the owner, and is answered 400
C10_Witness ==
    /\ resp.op = "projectRemoveMember"
    /\ resp.status = 400
    /\ ProjectExists(resp.target)
    /\ projects[resp.target].owner \in resp.data
    /\ resp.actor \in UserIds
    /\ resp.actor # projects[resp.target].owner
    /\ isAdmin(resp.actor)

\* the records whose email equals e when case is ignored, in a users collection
SameEmail(coll, e) == {u \in DOMAIN coll : toLowerCase(coll[u].email) = toLowerCase(e)}

\* C11: of two registrations with the same email (case ignored), handled one
\* after the other, the first stores one record and the second is answered with
\* the already-exists error and stores nothing: one record holds the email.
C11_RegisterStep ==
    LET r == resp' IN
    r.op = "register" =>
        \A d \in r.data :
            registerSchema(d.email) =>
                /\ IF SameEmail(users, d.email) # {}
                   THEN r.status = 400 /\ d.error = AlreadyExists /\ users' = users
                   ELSE /\ r.status = 201
                        /\ DOMAIN users' = DOMAIN users \cup {r.target}
                        /\ r.target \notin DOMAIN users
                        /\ \A u \in DOMAIN users : users'[u] = users[u]
                /\ Cardinality(SameEmail(users', d.email)) = 1

C11_SecondRegistrationConflicts == [][C11_RegisterStep]_vars

\* a registration is refused for an email that is stored in another case
C11_Witness ==
    /\ resp.op = "register"
    /\ resp.status = 400
    /\ \E d \in resp.data :
          /\ d.error = AlreadyExists
          /\ \E u \in Registered : users[u].email # d.email
                                      /\ users[u].email = toLowerCase(d.email)

\* C12: whatever the interleaving of the registration and Google-login
\* requests of concurrent workers, no two user records have the same email.
C12_EmailsUnique ==
    \A u, v \in DOMAIN users : users[u].email = users[v].email => u = v

HeldKeys == {projects[p].key : p \in DOMAIN projects}

KeysDistinct ==
    \A p, q \in DOMAIN projects : projects[p].key = projects[q].key => p = q

\* a create that supplies a key some record holds, active or not, is answered
\* 400 and stores nothing
C13_HeldKeyStep ==
    \A n \in KeyNames, k \in ValidKeys \ {NoKey} :
        (ProjectCreateUpTo(KeyActor, n, k, MaxKeyProjects) /\ toUpperCase(k) \in HeldKeys)
            => (resp'.status = 400 /\ projects' = projects)

\* C13: after any sequence of project creates (with supplied or generated
\* keys) and soft deletes, handled one at a time, no two project records have
\* the same key, and a create that supplies a key held by any record, active
\* or deactivated, is rejected and creates no record.
C13_KeysStayDistinct == []KeysDistinct /\ [][C13_HeldKeyStep]_vars

\* a create was refused while every stored project is deactivated
C13_Witness ==
    /\ resp.op = "projectCreate" /\ resp.status = 400 /\ resp.actor = KeyActor
    /\ Cardinality(DOMAIN projects) >= 2
    /\ \A p \in DOMAIN projects : ~projects[p].isActive

KeyFormat(key) ==
    /\ Len(key) >= KeyMinLen
    /\ Len(key) <= KeyMaxLen
    /\ \A i \in 1..Len(key) : IsUpperLetter(key[i])

\* C14: every project record stored by creation, whether its key was supplied
\* or generated, has a key of two to ten upper-case letters.
C14_StoredKeysMatchFormat ==
    \A p \in DOMAIN projects : KeyFormat(projects[p].key)

Candidate(name) == toUpperCase(substring0(name, KeyPrefixLen))

SmallestFreeCounter(name) ==
    CHOOSE c \in 1..(Cardinality(DOMAIN projects) + 1) :
        /\ Candidate(name) \o NumToStr(c) \notin HeldKeys
        /\ \A d \in 1..(c - 1) : Candidate(name) \o NumToStr(d) \in HeldKeys

ExpectedKey(name) ==
    IF Candidate(name) \notin HeldKeys THEN Candidate(name)
    ELSE Candidate(name) \o NumToStr(SmallestFreeCounter(name))

C15_KeylessStep ==
    \A n \in KeyNames :
        ProjectCreateUpTo(KeyActor, n, NoKey, MaxKeyProjects)
            => /\ resp'.status = 201
               /\ resp'.target \in DOMAIN projects' \ DOMAIN projects
               /\ projects'[resp'.target].key = ExpectedKey(n)

\* C15: a project created without a key gets the candidate derived from its
\* name when no record holds it, and otherwise the candidate followed by the
\* smallest counter from 1 on that no record holds: a function of the name
\* and of the keys held.
C15_GeneratedKeyIsFirstFree == [][C15_KeylessStep]_vars

\* TES, TES1 and TES2 were handed out in turn
C15_Witness ==
    /\ resp.op = "projectCreate" /\ resp.status = 201
    /\ projects[resp.target].key = KeyTES \o <<"2">>
    /\ {KeyTES, KeyTES \o <<"1">>} \subseteq HeldKeys

\* the update that has just answered, when it found its record
UpdateAnswer == CHOOSE r \in resp'.data : TRUE

UpdateFound ==
    /\ resp'.op = "repoUpdate"
    /\ resp' # resp
    /\ \E r \in resp'.data : "out" \in DOMAIN r

Timestamp == "updatedAt"

C16_FrameStepAsStated ==
    UpdateFound =>
        LET r == UpdateAnswer
            stored == projects'[resp'.target]
        IN  /\ \A f \in DOMAIN r.given : stored[f] = r.given[f]
            /\ \A f \in DOMAIN r.read \ DOMAIN r.given : stored[f] = r.read[f]
            /\ r.out = stored

C16_FrameStep ==
    UpdateFound =>
        LET r == UpdateAnswer
            stored == projects'[resp'.target]
        IN  /\ DOMAIN stored = DOMAIN r.read
            /\ DOMAIN r.out = DOMAIN stored
            /\ \A f \in DOMAIN r.given \ {Timestamp} : stored[f] = r.given[f]
            /\ \A f \in DOMAIN r.read \ (DOMAIN r.given \cup {Timestamp}) :
                    stored[f] = r.read[f]
            /\ \A f \in DOMAIN stored \ {Timestamp} : r.out[f] = stored[f]
            /\ stored[Timestamp] = now'

C17_UpdateCreatesNoRecord ==
    [][resp'.op = "repoUpdate" => DOMAIN projects' \subseteq DOMAIN projects]_vars

C18_DeleteStep ==
    /\ \A id \in StoreIds :
          RepoDelete(id) =>
              /\ findById(id)' = {}
              /\ \A o \in DOMAIN projects \ {id} :
                    o \in DOMAIN projects' /\ projects'[o] = projects[o]
              /\ DOMAIN projects' \subseteq DOMAIN projects
    /\ \A id \in StoreIds :
          (findById(id) = {} /\ findById(id)' # {})
              => (resp'.op = "repoCreate" /\ resp'.target = id)
    /\ \A id \in StoreIds : RepoFindById(id) => resp'.data = findById(id)

\* C18: after delete(id), findById(id) answers absent until a create makes a
\* record of that id; a delete of an id without a record changes nothing.
C18_DeletedStaysAbsent == [][C18_DeleteStep]_vars

C19_CreateStep ==
    (/\ resp'.op = "issueCreate"
     /\ authenticate(resp'.actor) # NoUser
     /\ resp'.target \in DOMAIN projects
     /\ isMember(projects[resp'.target], resp'.actor))
        => /\ resp'.status = 201
           /\ \E i \in DOMAIN issues' \ DOMAIN issues :
                 /\ DOMAIN issues' = DOMAIN issues \cup {i}
                 /\ issues'[i].projectId = resp'.target
                 /\ issues'[i].reporter = resp'.actor
                 /\ includes(issues'[i].watchers, resp'.actor)

\* C19: POST /issues by a member of an existing project, naming that project,
\* stores exactly one new issue in it, with the sender as its reporter and
\* among its watchers.
C19_MemberCreateStoresIssue == [][C19_CreateStep]_vars

C21_LoggedHoursNeverDecrease ==
    [][\A i \in DOMAIN issues \cap DOMAIN issues' :
            issues'[i].loggedHours >= issues[i].loggedHours]_vars

C22_DeleteStep ==
    /\ (resp'.op = "projectDelete" /\ resp'.status = 200) =>
          \E id \in DOMAIN projects :
              /\ id = resp'.target
              /\ findById(id)' = {[projects[id] EXCEPT !.isActive = FALSE]}
              /\ \A u \in UserIds : id \notin findByUser(u)'
    /\ (resp'.op = "projectList" /\ resp'.status = 200) =>
          \A id \in resp'.data : projects[id].isActive
    /\ DOMAIN projects \subseteq DOMAIN projects'

\* C22: DELETE /projects/:id only clears the active flag: findById still
\* answers the record, with its key, owner and members as they were,
\* findByUser answers it for no user, and no route removes a project record.
C22_DeleteOnlyDeactivates == [][C22_DeleteStep]_vars

\* a project with two members was deleted and is still stored
C22_Witness ==
    /\ resp.op = "projectDelete" /\ resp.status = 200
    /\ resp.target \in DOMAIN projects
    /\ ~projects[resp.target].isActive
    /\ Len(projects[resp.target].members) >= 2

IssuesOf(projectId) == {i \in DOMAIN issues : issues[i].projectId = projectId}

RECURSIVE HoursOver(_, _)
HoursOver(S, field) ==
    IF S = {} THEN 0
    ELSE LET i == CHOOSE x \in S : TRUE
             h == issues[i][field]
         IN  (IF h = NoEstimate THEN 0 ELSE h) + HoursOver(S \ {i}, field)

RECURSIVE CountsSum(_, _)
CountsSum(counts, values) ==
    IF values = {} THEN 0
    ELSE LET v == CHOOSE x \in values : TRUE
         IN  counts[v] + CountsSum(counts, values \ {v})

ExactBreakdown(counts, S, field) ==
    /\ DOMAIN counts = {issues[i][field] : i \in S}
    /\ \A v \in DOMAIN counts : counts[v] = Cardinality({i \in S : issues[i][field] = v})
    /\ CountsSum(counts, DOMAIN counts) = Cardinality(S)

C24_StatsStep ==
    (resp'.op = "projectStats" /\ resp'.status = 200) =>
        \A st \in resp'.data :
            LET S == IssuesOf(resp'.target) IN
            /\ st.total = Cardinality(S)
            /\ ExactBreakdown(st.byStatus, S, "status")
            /\ ExactBreakdown(st.byPriority, S, "priority")
            /\ ExactBreakdown(st.byType, S, "type")
            /\ st.totalEstimatedHours = HoursOver(S, "estimatedHours")
            /\ st.totalLoggedHours = HoursOver(S, "loggedHours")
            /\ S = {} => /\ st.total = 0
                         /\ DOMAIN st.byStatus = {}
                         /\ st.totalEstimatedHours = 0 /\ st.totalLoggedHours = 0

\* C24: the statistics of a project with N issues have total N, breakdowns by
\* status, priority and type that count each value exactly and sum to N, and
\* hour totals that are the sums over the issues, a missing estimate counting
\* as 0; with no issue every total is 0 and every breakdown empty.
C24_StatisticsAreExact == [][C24_StatsStep]_vars

\* the statistics of two issues of different status, one of them estimated
C24_Witness ==
    /\ resp.op = "projectStats" /\ resp.status = 200
    /\ \E st \in resp.data :
          /\ st.total = 2
          /\ Cardinality(DOMAIN st.byStatus) = 2
          /\ st.totalEstimatedHours = 2

\* the header is 'Bearer <token>', the token verifies, its user exists and is active
Admissible(h) ==
    /\ h # NoHeader
    /\ h[1] = "Bearer "
    /\ h[2].signed
    /\ h[2].userId \in DOMAIN users
    /\ users[h[2].userId].isActive

C25_AuthenticateStep ==
    resp'.op = "authenticate" =>
        \A out \in resp'.data :
            /\ out.next => Admissible(resp'.target) /\ out.user = resp'.target[2].userId
            /\ ~Admissible(resp'.target) => out.sent = 401 /\ ~out.next
            /\ ~(out.next /\ out.sent # 0)
            /\ out.next \/ out.sent # 0

\* C25: authenticate calls next, with req.user set, only for a header
\* 'Bearer <token>' whose token verifies and whose user exists and is active;
\* otherwise it answers 401 and never calls next; it never does both.
C25_NextOnlyForActiveBearer == [][C25_AuthenticateStep]_vars

\* a signed Bearer token of a deactivated account is answered 401
C25_Witness ==
    /\ resp.op = "authenticate"
    /\ resp.target # NoHeader
    /\ resp.target[1] = Bearer /\ resp.target[2].signed
    /\ resp.target[2].userId \in DOMAIN users
    /\ ~users[resp.target[2].userId].isActive
    /\ \E out \in resp.data : out.sent = 401 /\ ~out.next

C26_CreateStep ==
    /\ (/\ resp'.op = "issueCreate" /\ resp' # resp /\ pending' = pending
        /\ authenticate(resp'.actor) # NoUser
        /\ resp'.target \in DOMAIN projects
        /\ isMember(projects[resp'.target], resp'.actor))
            => FALSE
    /\ \A w, v \in Workers :
          (/\ w # v
           /\ pending[w] = Idle /\ pending'[w].op = "issueCreate"
           /\ pending[v].op = "issueCreate" /\ pending[v].id = pending'[w].id)
              => pending'[w].data = pending[v].data

\* C26: two issue-create requests of members for one project can both pass
\* the handler's checks and compute the same key before either saves: a
\* member's request for an existing project is never answered before its key
\* is computed, and a request handled while another holds a computed key for
\* the project computes that same key.
C26_CreatesCanComputeOneKey == [][C26_CreateStep]_vars

\* C27: the candidate key of a name is the name without its non-alphanumeric
\* characters, upper-cased and cut to 10 characters, and the create route and
\* the generateUniqueKey static of each persistence variant produce the same
\* key for the same name and the same existing keys.
C27_GeneratorsAgree ==
    resp.op = "generateKey" =>
        \A out \in resp.data :
            /\ out.route = out.keyValue
            /\ out.keyValue = out.document
            /\ findByKey(substring0(toUpperCase(stripNonAlphanumeric(resp.target)), KeyMaxLen)) = {}
                  => out.route = substring0(toUpperCase(stripNonAlphanumeric(resp.target)), KeyMaxLen)

\* how often (author, content) occurs among the comments embedded in an issue
EmbeddedCount(i, author, content) ==
    Cardinality({k \in 1..Len(issues[i].comments) :
                    /\ issues[i].comments[k].author = author
                    /\ issues[i].comments[k].content = content})

\* how often it occurs among the standalone comments that reference the issue
StandaloneCount(i, author, content) ==
    Cardinality({c \in findByIssue(i) :
                    comments[c].author = author /\ comments[c].content = content})

CommentContents(i) ==
    {issues[i].comments[k].content : k \in 1..Len(issues[i].comments)}
        \cup {comments[c].content : c \in findByIssue(i)}

\* C28: for every issue the comments embedded in it and the standalone
\* comments that reference it are the same multiset of (author, content),
\* after any sequence of comment creates, edits and deletes, issue
\* add-comment calls and time logs.
C28_EmbeddedMatchesStandalone ==
    \A i \in DOMAIN issues : \A a \in DOMAIN users : \A c \in CommentContents(i) :
        EmbeddedCount(i, a, c) = StandaloneCount(i, a, c)

C29_WriteStep ==
    (/\ resp'.op = "repoUpdate"
     /\ resp'.target \in DOMAIN projects
     /\ resp'.target \in DOMAIN projects')
        => \A d \in resp'.data :
              "out" \in DOMAIN d =>
                  \A f \in DOMAIN projects[resp'.target] \ (DOMAIN d.given \cup {Timestamp}) :
                      projects'[resp'.target][f] = projects[resp'.target][f]

\* C29: when two update calls on one id that name disjoint fields overlap,
\* the record stored after both carries the new values of both: the write of
\* a call leaves every field it does not name as the store holds it, so it
\* reverts no field that the other call changed.
C29_DisjointUpdatesBothKept == [][C29_WriteStep]_vars

\* C30: every standalone comment references an issue that has a record: none
\* is left behind by the hard delete of its issue, none is created for an
\* issue id without a record.
C30_CommentsReferenceIssues ==
    \A c \in DOMAIN comments : comments[c].issueId \in DOMAIN issues

====
